---- MODULE Spec2Model ----
(***************************************************************************)
(* Trace generation and playback of the algorithm visualizer.              *)
(*                                                                         *)
(* Part 1 models the playback hook useVisualization: its React state, the  *)
(* timeout reference, the host's pending timers and the auto-play effect.  *)
(* State updaters (setState(prev => ...)) are applied in call order, so    *)
(* state holds the result of every updater queued so far, and effDeps the  *)
(* dependency values the effect last ran with.  Scheduling: JavaScript     *)
(* runs one callback at a time, and React renders the state an event left  *)
(* and runs the effect of that render before the next event (a call of the *)
(* hook's API or a timer callback) is handled; renderDue marks the states  *)
(* in which that render is still owed.                                     *)
(*                                                                         *)
(* Part 2 models the trace builders fibonacciRunner and nQueensRunner.     *)
(* validateInput and generateSteps are operators computed as the code      *)
(* computes them: JavaScript numbers are doubles (sums above 2^53 are      *)
(* rounded), BigInts are exact, 1 << k keeps the low five bits of k.  The  *)
(* recursion of the N-Queens solvers is run on an explicit stack of the    *)
(* calls in progress.  A caller holds one input, validates it and, when it *)
(* is valid, generates its trace.                                          *)
(***************************************************************************)
EXTENDS Integers, Sequences, FiniteSets, TLC

VARIABLES
    state,       \* useState<VisualizationState>
    timeoutRef,  \* timeoutRef.current: 0 is null, otherwise a timer id
    stepsRef,    \* stepsRef.current
    timers,      \* the host's pending setTimeout callbacks: [id, delay]
    effDeps,     \* dependency values of the last run of the auto-play effect
    renderDue,   \* an update is queued that React has not rendered yet
    quiet,       \* the user invokes no further operation
    runner,      \* the runner a caller works with: "fibonacci" or "n-queens"
    runInput,    \* the input object the caller holds
    validation,  \* what validateInput returned for it
    trace,       \* what generateSteps returned for it last
    previousTrace,  \* what the call before the last returned
    pc           \* the caller's position: "input", "validated", "generated",
                 \* "repeated"

pvars == <<state, timeoutRef, stepsRef, timers, effDeps, renderDue, quiet>>

bvars == <<runner, runInput, validation, trace, previousTrace, pc>>

vars == <<pvars, bvars>>

\* ---------------------------------------------------------------- bounds
MaxLen == 3

MaxTimers == 3

\* ------------------------------------------------------------- playback
Null == "null"

Speeds == {"slow", "medium", "fast"}

SPEED_MAP == [slow |-> 1500, medium |-> 800, fast |-> 300]

Results == {"done"}

MathMax(a, b) == IF a >= b THEN a ELSE b

MathMin(a, b) == IF a <= b THEN a ELSE b

\* The traces a page can hand to setSteps: AlgorithmStep arrays of two
\* different runs, of every length up to MaxLen.
MkSteps(tag, len) == [i \in 1..len |-> [id |-> i - 1, data |-> tag]]

Traces == {MkSteps(tag, len) : tag \in {"A", "B"}, len \in 0..MaxLen}

StepIndexes == -1..(MaxLen + 1)

initialState ==
    [isPlaying |-> FALSE, isPaused |-> FALSE, currentStep |-> 0,
     totalSteps |-> 0, speed |-> "medium", steps |-> <<>>, result |-> Null]

\* The state updaters handed to setState.
setStepsState(prev, steps) ==
    [prev EXCEPT !.steps = steps, !.totalSteps = Len(steps),
                 !.currentStep = 0, !.result = Null]

goToStepState(prev, stepIndex) ==
    [prev EXCEPT !.currentStep =
        MathMax(0, MathMin(stepIndex, prev.totalSteps - 1))]

nextStepOffByOne(prev) ==
    IF prev.currentStep >= prev.totalSteps
    THEN [prev EXCEPT !.isPlaying = FALSE]
    ELSE [prev EXCEPT !.currentStep = prev.currentStep + 1]

nextStepState(prev) ==
    IF prev.currentStep >= prev.totalSteps - 1
    THEN [prev EXCEPT !.isPlaying = FALSE]
    ELSE [prev EXCEPT !.currentStep = prev.currentStep + 1]

prevStepState(prev) ==
    [prev EXCEPT !.currentStep = MathMax(0, prev.currentStep - 1)]

playState(prev) == [prev EXCEPT !.isPlaying = TRUE, !.isPaused = FALSE]

pauseOnlyStops(prev) == [prev EXCEPT !.isPlaying = FALSE]

pauseState(prev) == [prev EXCEPT !.isPlaying = FALSE, !.isPaused = TRUE]

resetKeepsCursor(prev) ==
    [prev EXCEPT !.isPlaying = FALSE, !.isPaused = FALSE, !.result = Null]

resetState(prev) ==
    [prev EXCEPT !.isPlaying = FALSE, !.isPaused = FALSE,
                 !.currentStep = 0, !.result = Null]

setSpeedState(prev, s) == [prev EXCEPT !.speed = s]

setResultState(prev, r) == [prev EXCEPT !.result = r]

\* clearTimer: clearTimeout(timeoutRef.current) when it is set; the
\* reference is null afterwards either way.
clearTimerLeaks(ts, ref) == ts

clearTimerTimers(ts, ref) ==
    IF ref # 0 THEN {t \in ts : t.id # ref} ELSE ts

\* The dependency array of the auto-play effect (the callbacks in it never
\* change).
Deps(s) == <<s.isPlaying, s.currentStep, s.totalSteps, s.speed>>

\* The two branches of the effect body and the delay it passes to
\* setTimeout.
effectSchedules(s) == s.isPlaying /\ s.currentStep < s.totalSteps - 1

effectNeverStops(s) == FALSE

effectStops(s) == s.isPlaying /\ s.currentStep >= s.totalSteps - 1

effectDelayMedium(s) == SPEED_MAP["medium"]

effectDelay(s) == SPEED_MAP[s.speed]

\* setTimeout hands out an id no pending timer has.
FreeIds(ts) == {i \in 1..MaxTimers : \A t \in ts : t.id # i}

NewId(ts) == CHOOSE i \in FreeIds(ts) : \A j \in FreeIds(ts) : i <= j

\* A call from an event handler, which queues an update.
UserCall ==
    /\ ~quiet
    /\ ~renderDue
    /\ renderDue' = TRUE
    /\ UNCHANGED <<effDeps, quiet, bvars>>

setSteps ==
    \E steps \in Traces :
        /\ UserCall
        /\ stepsRef' = steps
        /\ state' = setStepsState(state, steps)
        /\ UNCHANGED <<timeoutRef, timers>>

goToStep ==
    \E stepIndex \in StepIndexes :
        /\ UserCall
        /\ state' = goToStepState(state, stepIndex)
        /\ UNCHANGED <<timeoutRef, timers, stepsRef>>

nextStep ==
    /\ UserCall
    /\ state' = nextStepState(state)
    /\ UNCHANGED <<timeoutRef, timers, stepsRef>>

prevStep ==
    /\ UserCall
    /\ state' = prevStepState(state)
    /\ UNCHANGED <<timeoutRef, timers, stepsRef>>

play ==
    /\ UserCall
    /\ state' = playState(state)
    /\ UNCHANGED <<timeoutRef, timers, stepsRef>>

pause ==
    /\ UserCall
    /\ timers' = clearTimerTimers(timers, timeoutRef)
    /\ timeoutRef' = 0
    /\ state' = pauseState(state)
    /\ UNCHANGED stepsRef

reset ==
    /\ UserCall
    /\ timers' = clearTimerTimers(timers, timeoutRef)
    /\ timeoutRef' = 0
    /\ state' = resetState(state)
    /\ UNCHANGED stepsRef

setSpeed ==
    \E s \in Speeds :
        /\ UserCall
        /\ state' = setSpeedState(state, s)
        /\ UNCHANGED <<timeoutRef, timers, stepsRef>>

setResult ==
    \E r \in Results :
        /\ UserCall
        /\ state' = setResultState(state, r)
        /\ UNCHANGED <<timeoutRef, timers, stepsRef>>

\* The pages' run handler: setSteps(steps) and setResult(...) in one event.
handleGenerate ==
    \E steps \in Traces \ {<<>>}, r \in Results :
        /\ UserCall
        /\ stepsRef' = steps
        /\ state' = setResultState(setStepsState(state, steps), r)
        /\ UNCHANGED <<timeoutRef, timers>>

\* The timer callback: () => nextStep().  A fired timer is no longer
\* pending; timeoutRef keeps its id until clearTimer or the next setTimeout.
timerFires ==
    \E t \in timers :
        /\ ~renderDue
        /\ timers' = timers \ {t}
        /\ state' = nextStepState(state)
        /\ renderDue' = TRUE
        /\ UNCHANGED <<timeoutRef, stepsRef, effDeps, quiet, bvars>>

\* The render React owes, followed by the auto-play effect when one of its
\* dependencies changed: first the cleanup of the previous run
\* (() => clearTimer()), then the effect body.  The setState of the second
\* branch queues an update, so one more render is owed.
autoPlayEffect ==
    /\ renderDue
    /\ UNCHANGED <<stepsRef, quiet, bvars>>
    /\ IF Deps(state) = effDeps
       THEN /\ renderDue' = FALSE
            /\ UNCHANGED <<state, timeoutRef, timers, effDeps>>
       ELSE LET cleaned == clearTimerTimers(timers, timeoutRef)
            IN  /\ effDeps' = Deps(state)
                /\ IF effectSchedules(state)
                   THEN /\ FreeIds(cleaned) # {}
                        /\ timers' = cleaned \cup
                              {[id |-> NewId(cleaned), delay |-> effectDelay(state)]}
                        /\ timeoutRef' = NewId(cleaned)
                        /\ renderDue' = FALSE
                        /\ UNCHANGED state
                   ELSE IF effectStops(state)
                   THEN /\ state' = [state EXCEPT !.isPlaying = FALSE]
                        /\ timers' = cleaned
                        /\ timeoutRef' = 0
                        /\ renderDue' = TRUE
                   ELSE /\ timers' = cleaned
                        /\ timeoutRef' = 0
                        /\ renderDue' = FALSE
                        /\ UNCHANGED state

\* From here on nothing but renders and timers happens.
userGoesQuiet ==
    /\ ~quiet
    /\ quiet' = TRUE
    /\ UNCHANGED <<state, timeoutRef, stepsRef, timers, effDeps, renderDue, bvars>>

\* The hook after its first render.
PlaybackInit ==
    /\ state = initialState
    /\ timeoutRef = 0
    /\ stepsRef = <<>>
    /\ timers = {}
    /\ effDeps = Deps(initialState)
    /\ renderDue = FALSE
    /\ quiet = FALSE

\* fibonacciRunner.getInitialInput(): an optional number is <<>> when it is
\* undefined and <<v>> otherwise.  The number n is kept as its integer part
\* n and its tenths nTenths, 0 for an integer.
fibGetInitialInput ==
    [n |-> 20, nTenths |-> 0, strategy |-> "dp-array", detailLevel |-> <<50>>,
     mode |-> "full"]

\* A caller that holds an input and has called neither validateInput nor
\* generateSteps.
NotValidated == [valid |-> FALSE, error |-> "undefined"]

Init ==
    /\ PlaybackInit
    /\ runner = "fibonacci"
    /\ runInput = fibGetInitialInput
    /\ validation = NotValidated
    /\ trace = <<>>
    /\ previousTrace = <<>>
    /\ pc = "input"

Next ==
    \/ setSteps
    \/ goToStep
    \/ nextStep
    \/ prevStep
    \/ play
    \/ pause
    \/ reset
    \/ setSpeed
    \/ setResult
    \/ handleGenerate
    \/ timerFires
    \/ autoPlayEffect
    \/ userGoesQuiet

Spec == Init /\ [][Next]_vars

\* The event loop runs a due render and a due timer callback.
FairSpec == Spec /\ WF_vars(autoPlayEffect) /\ WF_vars(timerFires)

TypeOK ==
    /\ state.isPlaying \in BOOLEAN
    /\ state.isPaused \in BOOLEAN
    /\ state.currentStep \in Int
    /\ state.totalSteps \in 0..MaxLen
    /\ state.speed \in Speeds
    /\ timeoutRef \in 0..MaxTimers

\* ------------------------------------------------------------ numbers
\* JavaScript numbers and BigInts hold values far beyond the integers of
\* the model checker, so a non-negative integer is kept as its limbs in
\* base 10000, least significant first, without leading zero limbs.
Base == 100 * 100

Limbs(k) == IF k = 0 THEN <<>> ELSE IF k < Base THEN <<k>> ELSE <<k % Base, k \div Base>>

Rest(x) == IF x = <<>> THEN <<>> ELSE Tail(x)

Low(x) == IF x = <<>> THEN 0 ELSE Head(x)

RECURSIVE Trim(_)
Trim(x) == IF x # <<>> /\ x[Len(x)] = 0 THEN Trim(SubSeq(x, 1, Len(x) - 1)) ELSE x

\* The limb of x at position i, zero outside its length.
Limb(x, i) == IF 1 <= i /\ i <= Len(x) THEN x[i] ELSE 0

\* The carry out of position i when the limb sums t, each below
\* 2 * Base - 1, are brought back below Base: a sum of Base or more makes
\* a carry, a sum of Base - 1 passes on the carry that reaches it.
RECURSIVE CarryOut(_, _)
CarryOut(t, i) ==
    IF i = 0 THEN 0
    ELSE IF t[i] >= Base THEN 1
    ELSE IF t[i] = Base - 1 THEN CarryOut(t, i - 1)
    ELSE 0

Carried(t) ==
    CHOOSE r \in {Trim(s) : s \in
        {<<>> \o [i \in 1..Len(t) + 1 |-> (Limb(t, i) + CarryOut(t, i - 1)) % Base]}} : TRUE

AddLimbs(x, y) ==
    CHOOSE r \in {Carried(t) : t \in
        {<<>> \o [i \in 1..(IF Len(x) < Len(y) THEN Len(y) ELSE Len(x)) |->
                    Limb(x, i) + Limb(y, i)]}} : TRUE

Add(x, y) == CHOOSE r \in {AddLimbs(a, b) : a \in {x}, b \in {y}} : TRUE

\* x - y for x >= y.  A negative limb difference borrows, a zero one
\* passes on the borrow that reaches it.
RECURSIVE BorrowOut(_, _)
BorrowOut(t, i) ==
    IF i = 0 THEN 0
    ELSE IF t[i] < 0 THEN 1
    ELSE IF t[i] = 0 THEN BorrowOut(t, i - 1)
    ELSE 0

Borrowed(t) ==
    CHOOSE r \in {Trim(s) : s \in
        {<<>> \o [i \in 1..Len(t) |-> (t[i] - BorrowOut(t, i - 1) + Base) % Base]}} : TRUE

SubLimbs(x, y) ==
    CHOOSE r \in {Borrowed(t) : t \in
        {<<>> \o [i \in 1..Len(x) |-> x[i] - Limb(y, i)]}} : TRUE

Sub(x, y) == CHOOSE r \in {SubLimbs(a, b) : a \in {x}, b \in {y}} : TRUE

RECURSIVE MulLimb(_, _, _)
MulLimb(x, d, c) ==
    IF x = <<>>
    THEN IF c = 0 THEN <<>> ELSE <<c>>
    ELSE LET t == Head(x) * d + c
         IN  <<t % Base>> \o MulLimb(Tail(x), d, t \div Base)

\* What the limb products x[i] * y[j], i in lo..hi, put on column k: the
\* low half of those with i + j = k + 1 and the high half of those with
\* i + j = k.  A column stays far below 2^31 for numbers of up to 5000
\* limbs.
RECURSIVE ColumnSum(_, _, _, _, _)
ColumnSum(x, y, k, lo, hi) ==
    IF lo > hi THEN 0
    ELSE IF lo = hi
    THEN ((x[lo] * Limb(y, k + 1 - lo)) % Base) + ((x[lo] * Limb(y, k - lo)) \div Base)
    ELSE CHOOSE r \in {left + ColumnSum(x, y, k, (lo + hi) \div 2 + 1, hi) :
                         left \in {ColumnSum(x, y, k, lo, (lo + hi) \div 2)}} : TRUE

Columns(x, y) ==
    <<>> \o [k \in 1..Len(x) + Len(y) |->
                ColumnSum(x, y, k, IF k - Len(y) > 1 THEN k - Len(y) ELSE 1,
                                   IF k < Len(x) THEN k ELSE Len(x))]

MulLimbs(x, y) ==
    CHOOSE r \in {Carried(t) : t \in
        {<<>> \o [k \in 1..Len(s) |-> (s[k] % Base) + (IF k > 1 THEN s[k - 1] \div Base ELSE 0)] :
            s \in {Columns(x, y)}}} : TRUE

Mul(x, y) ==
    CHOOSE r \in {IF a = <<>> \/ b = <<>> THEN <<>> ELSE MulLimbs(a, b) :
                    a \in {x}, b \in {y}} : TRUE

RECURSIVE LessFrom(_, _, _)
LessFrom(x, y, i) ==
    IF i = 0 THEN FALSE
    ELSE IF x[i] # y[i] THEN x[i] < y[i]
    ELSE LessFrom(x, y, i - 1)

Less(x, y) ==
    IF Len(x) # Len(y) THEN Len(x) < Len(y) ELSE LessFrom(x, y, Len(x))

IsOdd(x) == Low(x) % 2 = 1

Half(x) ==
    Trim([i \in 1..Len(x) |->
            (x[i] + (IF i < Len(x) /\ x[i + 1] % 2 = 1 THEN Base ELSE 0)) \div 2])

\* BigInt(...).toString() and the toString() of a number below 2^53: the
\* decimal digits, most significant first.
\* Digit p of limb d, p = 1 the most significant of its four.
LimbDigit(d, p) ==
    IF p = 1 THEN d \div 1000
    ELSE IF p = 2 THEN (d \div 100) % 10
    ELSE IF p = 3 THEN (d \div 10) % 10
    ELSE d % 10

RECURSIVE DropZeros(_)
DropZeros(ds) == IF Len(ds) > 1 /\ Head(ds) = 0 THEN DropZeros(Tail(ds)) ELSE ds

AllDigits(x) ==
    <<>> \o [k \in 1..4 * Len(x) |-> LimbDigit(x[Len(x) - ((k - 1) \div 4)], ((k - 1) % 4) + 1)]

toString(x) ==
    CHOOSE r \in {IF a = <<>> THEN <<0>> ELSE DropZeros(AllDigits(a)) : a \in {x}} : TRUE

\* The integer a digit string denotes: four digits to a limb, from the
\* right.
DigitFromRight(ds, p) == IF p < Len(ds) THEN ds[Len(ds) - p] ELSE 0

ParseLimbs(ds) ==
    Trim(<<>> \o [i \in 1..(Len(ds) + 3) \div 4 |->
            DigitFromRight(ds, 4 * i - 4) + 10 * DigitFromRight(ds, 4 * i - 3)
            + 100 * DigitFromRight(ds, 4 * i - 2) + 1000 * DigitFromRight(ds, 4 * i - 1)])

ParseDigits(ds) == CHOOSE r \in {ParseLimbs(d) : d \in {ds}} : TRUE

\* A JavaScript number is an IEEE-754 double: 53 bits of mantissa, sums
\* rounded to nearest, ties to even.  TwoTo53 is 9007199254740992.
TwoTo53 == <<992, 5474, 1992, 9007>>

\* Drops low bits until the value fits 53 bits: the value left, the bits
\* dropped, the last bit dropped and whether any earlier one was set.
RECURSIVE Shift53(_, _, _, _)
Shift53(x, e, guard, sticky) ==
    IF Less(x, TwoTo53) THEN [m |-> x, e |-> e, guard |-> guard, sticky |-> sticky]
    ELSE CHOOSE r \in {Shift53(h, e + 1, g, st) :
                         h \in {Half(x)}, g \in {IsOdd(x)}, st \in {sticky \/ guard}} : TRUE

RECURSIVE ShiftLeft(_, _)
ShiftLeft(x, e) == IF e = 0 THEN x ELSE ShiftLeft(MulLimb(x, 2, 0), e - 1)

RoundToDouble(x) ==
    CHOOSE r \in {ShiftLeft(IF s.guard /\ (s.sticky \/ IsOdd(s.m))
                            THEN Add(s.m, <<1>>) ELSE s.m, s.e) :
                  s \in {Shift53(x, 0, FALSE, FALSE)}} : TRUE

NumberAdd(x, y) == RoundToDouble(Add(x, y))

\* ------------------------------------------------------------ Fibonacci
Undefined == "undefined"

\* An optional number is <<>> when it is undefined and <<v>> otherwise; a
\* sample rate is <<k>>, or Infinity.
NoNumber == <<>>

Infinity == <<>>

\* Declared as a safety cap in generateSteps and read nowhere.
MAX_DETAILED_STEPS == 2000

MAX_DP_ARRAY_SIZE == 10000

Zero == <<>>

One == <<1>>

\* fibHelper(k) = [F(k), F(k+1)]; the recursion is log2(k) deep.
\* Lines 67-74: [F(k), F(k+1)] from a = F(k div 2) and b = F(k div 2 + 1).
fibDouble(a, b, k) ==
    CHOOSE r \in {IF k % 2 = 0 THEN <<c, d>> ELSE <<d, Add(c, d)>> :
                    c \in {Mul(a, Sub(Add(b, b), a))},
                    d \in {Add(Mul(b, b), Mul(a, a))}} : TRUE

RECURSIVE fibHelper(_)
fibHelper(k) ==
    IF k = 0 THEN <<Zero, One>>
    ELSE IF k = 1 THEN <<One, One>>
    ELSE CHOOSE r \in {fibDouble(p[1], p[2], k) : p \in {fibHelper(k \div 2)}} : TRUE

fastDoubling(n) ==
    IF n = 0 THEN Zero ELSE IF n = 1 THEN One ELSE CHOOSE r \in {p[1] : p \in {fibHelper(n)}} : TRUE

\* for (let i = lo; i <= hi; i++) { temp = a + b; a = b; b = temp } on
\* BigInts; the range is halved so that the evaluation stays shallow, and
\* the left half is computed before the right one starts.
RECURSIVE iterativeFibLoop(_, _, _)
iterativeFibLoop(st, lo, hi) ==
    IF lo > hi THEN st
    ELSE IF lo = hi THEN [a |-> st.b, b |-> Add(st.a, st.b)]
    ELSE LET mid == (lo + hi) \div 2
             left == iterativeFibLoop(st, lo, mid)
         IN  IF left.b = Zero THEN left ELSE iterativeFibLoop(left, mid + 1, hi)

iterativeFib(n) ==
    IF n <= 1 THEN Limbs(n) ELSE iterativeFibLoop([a |-> Zero, b |-> One], 2, n).b

\* Payload values: a number (held exactly as the double it is) or a string
\* of decimal digits.
Num(x) == [t |-> "number", v |-> x]

Str(x) == [t |-> "string", v |-> toString(x)]

Step(kind, payload, codeLine) ==
    [kind |-> kind, payload |-> payload, codeLine |-> codeLine]

fibStrategy(input) ==
    IF input.strategy = Undefined THEN "dp-array" ELSE input.strategy

\* input.detailLevel || 50: undefined and 0 both give 50.
fibDetailLevel(input) ==
    IF input.detailLevel = NoNumber \/ input.detailLevel = <<0>>
    THEN 50 ELSE input.detailLevel[1]

\* A derivation that tabulates whatever n is.
fibModeNeverComputationOnly(input) ==
    IF input.mode # Undefined THEN input.mode
    ELSE IF input.n <= 50 THEN "full"
    ELSE "condensed"

fibMode(input) ==
    IF input.mode # Undefined THEN input.mode
    ELSE IF input.n <= 50 THEN "full"
    ELSE IF input.n <= MAX_DP_ARRAY_SIZE THEN "condensed"
    ELSE "computation-only"

\* Math.max(1, Math.floor(n / d)): n / 0 is Infinity for n > 0.
maxOneFloorDiv(n, d) ==
    IF d = 0 THEN Infinity ELSE <<MathMax(1, n \div d)>>

\* i % sampleRate, where i % Infinity is i.
JsMod(i, rate) == IF rate = Infinity THEN i ELSE i % rate[1]

iterativeSampleRate(n, mode, detailLevel) ==
    IF mode = "condensed" THEN maxOneFloorDiv(n, 100 - detailLevel) ELSE <<1>>

dpSampleRate(n, mode, detailLevel) ==
    IF mode = "condensed"
    THEN maxOneFloorDiv(n, MathMax(1, (100 - detailLevel) * 10))
    ELSE <<1>>

fibInitStep(input) ==
    Step("init",
         [n |-> input.n, mode |-> fibMode(input), strategy |-> fibStrategy(input),
          estimatedMemory |-> input.n * 8,
          warning |-> input.n > MAX_DP_ARRAY_SIZE],
         0)

\* Base cases that report 0 whatever n is.
fibBaseCaseZero(input) ==
    <<fibInitStep(input),
      Step("base-case", [n |-> input.n, result |-> Num(Zero), dpLen |-> 1], 2),
      Step("complete", [n |-> input.n, result |-> Num(Zero), dpLen |-> 1], 15)>>

fibBaseCase(input) ==
    <<fibInitStep(input),
      Step("base-case", [n |-> input.n, result |-> Num(Limbs(input.n)), dpLen |-> 1], 2),
      Step("complete", [n |-> input.n, result |-> Num(Limbs(input.n)), dpLen |-> 1], 15)>>

\* A computation-only trace whose result stays a BigInt value.
fibComputationOnlyAsNumber(input) ==
    <<fibInitStep(input),
      Step("compute-start", [n |-> input.n, strategy |-> "fast-doubling"], 0),
      Step("complete",
           [n |-> input.n, result |-> Num(fastDoubling(input.n)),
            mode |-> "computation-only"], 0)>>

fibComputationOnly(input) ==
    <<fibInitStep(input),
      Step("compute-start", [n |-> input.n, strategy |-> "fast-doubling"], 0),
      Step("complete",
           [n |-> input.n, result |-> Str(fastDoubling(input.n)),
            mode |-> "computation-only"], 0)>>

\* One pass of the iterative loop: a and b are JavaScript numbers.
iterativeBody(st, i, n, sampleRate) ==
    LET shouldSample == JsMod(i, sampleRate) = 0 \/ i = n \/ i <= 10
        temp == NumberAdd(st.a, st.b)
        s1 == IF shouldSample
              THEN Append(st.steps,
                     Step("compute",
                          [i |-> i, prev1 |-> Num(st.b), prev2 |-> Num(st.a),
                           dpLen |-> 2, n |-> n, strategy |-> "iterative"], 10))
              ELSE st.steps
        s2 == IF shouldSample
              THEN Append(s1,
                     Step("store",
                          [i |-> i, value |-> Num(temp), dpLen |-> 2, n |-> n,
                           strategy |-> "iterative"], 11))
              ELSE s1
    IN  [a |-> st.b, b |-> temp, steps |-> s2]

RECURSIVE iterativeLoop(_, _, _, _, _)
iterativeLoop(st, lo, hi, n, sampleRate) ==
    IF lo > hi THEN st
    ELSE IF lo = hi THEN iterativeBody(st, lo, n, sampleRate)
    ELSE LET mid == (lo + hi) \div 2
             left == iterativeLoop(st, lo, mid, n, sampleRate)
         IN  IF left.b = Zero THEN left
             ELSE iterativeLoop(left, mid + 1, hi, n, sampleRate)

fibIterative(input) ==
    LET n == input.n
        start == [a |-> Zero, b |-> One,
                  steps |-> <<fibInitStep(input),
                              Step("init-dp",
                                   [dpLen |-> 2, n |-> n, strategy |-> "iterative"], 6)>>]
        end == iterativeLoop(start, 2, n, n,
                 iterativeSampleRate(n, fibMode(input), fibDetailLevel(input)))
    IN  Append(end.steps,
               Step("complete", [n |-> n, result |-> Num(end.b), dpLen |-> 2], 14))

\* dp[i] = v: JavaScript arrays grow when written past their end.
ArraySet(dp, i, v) ==
    IF i + 1 <= Len(dp) THEN [dp EXCEPT ![i + 1] = v] ELSE Append(dp, v)

\* One pass of the table loop: BigInt sums when useBigInt, number sums
\* otherwise.
dpBody(st, i, n, mode, sampleRate, useBigInt) ==
    LET shouldSample ==
            mode = "full" \/ JsMod(i, sampleRate) = 0 \/ i = n \/ i <= 10
        prev1 == st.dp[i]
        prev2 == st.dp[i - 1]
        sum == IF useBigInt THEN Add(prev1, prev2) ELSE NumberAdd(prev1, prev2)
        dp2 == ArraySet(st.dp, i, sum)
        s1 == IF shouldSample
              THEN Append(st.steps,
                     Step("compute",
                          [i |-> i, prev1 |-> Str(prev1), prev2 |-> Str(prev2),
                           dpLen |-> Len(st.dp), n |-> n, strategy |-> "dp-array"], 10))
              ELSE st.steps
        s2 == IF shouldSample
              THEN Append(s1,
                     Step("store",
                          [i |-> i, value |-> Str(sum), dpLen |-> Len(dp2), n |-> n,
                           strategy |-> "dp-array"], 11))
              ELSE s1
    IN  [dp |-> dp2, steps |-> s2]

RECURSIVE dpLoop(_, _, _, _, _, _, _)
dpLoop(st, lo, hi, n, mode, sampleRate, useBigInt) ==
    IF lo > hi THEN st
    ELSE IF lo = hi THEN dpBody(st, lo, n, mode, sampleRate, useBigInt)
    ELSE LET mid == (lo + hi) \div 2
             left == dpLoop(st, lo, mid, n, mode, sampleRate, useBigInt)
         IN  IF left.dp = <<>> THEN left
             ELSE dpLoop(left, mid + 1, hi, n, mode, sampleRate, useBigInt)

fibDpArray(input) ==
    LET n == input.n
        mode == fibMode(input)
        size == MathMin(n + 1, MAX_DP_ARRAY_SIZE)
        dp0 == [i \in 1..size |-> IF i = 2 THEN One ELSE Zero]
        useBigInt == n > 78
        start == [dp |-> dp0,
                  steps |-> <<fibInitStep(input),
                              Step("init-dp",
                                   [dpLen |-> size, n |-> n, strategy |-> "dp-array",
                                    useBigInt |-> useBigInt], 6)>>]
        end == dpLoop(start, 2, MathMin(n, MAX_DP_ARRAY_SIZE), n, mode,
                      dpSampleRate(n, mode, fibDetailLevel(input)), useBigInt)
    IN  Append(end.steps,
               IF n > MAX_DP_ARRAY_SIZE
               THEN Step("complete",
                         [n |-> n, result |-> Str(fastDoubling(n)),
                          dpLen |-> Len(end.dp), mode |-> "computation-only"], 14)
               ELSE Step("complete",
                         [n |-> n, result |-> Str(end.dp[n + 1]),
                          dpLen |-> Len(end.dp)], 14))

fibGenerateSteps(input) ==
    IF input.n <= 1 THEN fibBaseCase(input)
    ELSE IF fibMode(input) = "computation-only" \/ input.n > MAX_DP_ARRAY_SIZE
    THEN fibComputationOnly(input)
    ELSE IF fibStrategy(input) = "iterative" THEN fibIterative(input)
    ELSE fibDpArray(input)

fibValidateInput(input) ==
    IF input.nTenths # 0 \/ input.n < 0 THEN [valid |-> FALSE, error |-> "N must be a non-negative integer"]
    ELSE IF input.n > 1000000
    THEN [valid |-> FALSE, error |-> "N must be less than 1,000,000 for safety"]
    ELSE IF input.detailLevel # NoNumber
            /\ (input.detailLevel[1] < 0 \/ input.detailLevel[1] > 100)
    THEN [valid |-> FALSE, error |-> "Detail level must be between 0 and 100"]
    ELSE [valid |-> TRUE, error |-> Undefined]

\* -------------------------------------------------------------- N-Queens
MAX_N == 20

NoFlag == <<>>

\* 1 << k on 32-bit integers: only the low five bits of k count.  A mask
\* is the set of its bit positions.
ShiftOne(k) == {k % 32}

isSafeBitmask(row, col, cols, diag1, diag2) ==
    LET colMask == ShiftOne(col)
        diag1Mask == ShiftOne(row - col + MAX_N)
        diag2Mask == ShiftOne(row + col)
    IN  /\ cols \cap colMask = {}
        /\ diag1 \cap diag1Mask = {}
        /\ diag2 \cap diag2Mask = {}

Abs(x) == IF x < 0 THEN -x ELSE x

\* A variant of isSafeTraditional that compares the columns alone.
isSafeTraditionalColumnsOnly(row, col, board) ==
    \A i \in 0..(row - 1) : board[i + 1] # col

\* board[i] of the code is board[i + 1] here.
isSafeTraditional(row, col, board) ==
    \A i \in 0..(row - 1) :
        /\ board[i + 1] # col
        /\ Abs(board[i + 1] - col) # Abs(i - row)

queensN(input) == MathMin(input.n, MAX_N)

\* A number that need not be an integer is <<v>> for the integer v and
\* <<v, t>> for v + t/10 with tenths t in 1..9, v >= 0; x < k, x > k and
\* k >= x for an integer k.
Below(x, k) == x[1] < k

Above(x, k) == x[1] > k \/ (x[1] = k /\ Len(x) = 2)

AtLeast(k, x) == ~Above(x, k)

\* input.maxSolutions || 1
queensMaxSolutions(input) ==
    IF input.maxSolutions = NoNumber \/ input.maxSolutions = <<0>>
    THEN <<1>> ELSE input.maxSolutions

queensUseBitmask(input) ==
    IF input.useBitmask # NoFlag THEN input.useBitmask[1] ELSE queensN(input) > 12

queensMode(input) ==
    IF input.mode # Undefined THEN input.mode
    ELSE IF queensN(input) <= 12 THEN "full"
    ELSE IF queensN(input) <= 16 THEN "sampling"
    ELSE "fast-solve"

MAX_STEPS(mode) ==
    IF mode = "full" THEN 100000 ELSE IF mode = "sampling" THEN 50000 ELSE 10000

samplingInterval(n, mode) ==
    IF mode = "sampling" THEN MathMax(1, n \div 4) ELSE 1

\* The names generateSteps closes over, fixed for one call.
queensEnv(input) ==
    [n |-> queensN(input),
     maxSolutions |-> queensMaxSolutions(input),
     useBitmask |-> queensUseBitmask(input),
     mode |-> queensMode(input),
     MAX_STEPS |-> MAX_STEPS(queensMode(input)),
     samplingInterval |-> samplingInterval(queensN(input), queensMode(input))]

queensInitStep(env) ==
    Step("init",
         [n |-> env.n, board |-> [i \in 1..env.n |-> -1], mode |-> env.mode,
          maxSolutions |-> env.maxSolutions, useBitmask |-> env.useBitmask],
         0)

\* A call of solveBitmask or solveTraditional in progress: its row, its
\* masks (empty for solveTraditional), the loop variable col and where it
\* is: at "enter" before its first statement, at "loop" before a pass of
\* the loop over the columns, at "called" when the call it made returns.
Call(row, cols, diag1, diag2) ==
    [row |-> row, col |-> 0, at |-> "enter",
     cols |-> cols, diag1 |-> diag1, diag2 |-> diag2]

\* A start that goes on with the steps of the call before.
queensStartKeepsSteps(env) ==
    [board |-> [i \in 1..env.n |-> -1],
     solutions |-> <<>>,
     stepCount |-> 0,
     steps |-> Append(trace, queensInitStep(env)),
     stack |-> <<Call(0, {}, {}, {})>>,
     ret |-> FALSE]

\* What the solvers share and change: board, solutions, stepCount and
\* steps, then the calls in progress, innermost last, and the value the
\* last call returned.
queensStart(env) ==
    [board |-> [i \in 1..env.n |-> -1],
     solutions |-> <<>>,
     stepCount |-> 0,
     steps |-> <<queensInitStep(env)>>,
     stack |-> <<Call(0, {}, {}, {})>>,
     ret |-> FALSE]

Push(q, cond, step) == IF cond THEN [q EXCEPT !.steps = Append(@, step)] ELSE q

Top(q) == q.stack[Len(q.stack)]

SetTop(q, call) == [q EXCEPT !.stack[Len(q.stack)] = call]

Return(q, ret) ==
    [q EXCEPT !.stack = SubSeq(@, 1, Len(@) - 1), !.ret = ret]

\* A test that samples the rows of every mode but full alike.
shouldSampleRowAnyMode(row, env) ==
    \/ env.mode = "full"
    \/ row % MathMax(1, env.n \div 4) = 0
    \/ row = 0
    \/ row = env.n - 1

shouldSampleRow(row, env) ==
    \/ env.mode = "full"
    \/ /\ env.mode = "sampling"
       /\ (row % env.samplingInterval = 0 \/ row = 0 \/ row = env.n - 1)

\* A head whose step-limit branch returns false, so that the callers go
\* on with their columns.
solveEnterLimitGoesOn(q, env) ==
    LET call == Top(q)
        solutions == Append(q.solutions, q.board)
    IN  IF call.row = env.n
        THEN Return(Push([q EXCEPT !.solutions = solutions], TRUE,
                         Step("solution-found",
                              [board |-> q.board, n |-> env.n,
                               solutionNumber |-> Len(solutions)], 16)),
                    AtLeast(Len(solutions), env.maxSolutions))
        ELSE IF q.stepCount > env.MAX_STEPS
        THEN Return(Push([q EXCEPT !.stepCount = @ + 1], TRUE,
                         Step("step-limit",
                              [n |-> env.n, solutionsFound |-> Len(q.solutions)], 0)),
                    FALSE)
        ELSE SetTop(Push([q EXCEPT !.stepCount = @ + 1], shouldSampleRow(call.row, env),
                         Step("try-row",
                              [row |-> call.row, board |-> q.board, n |-> env.n], 14)),
                    [call EXCEPT !.at = "loop"])

\* A head that goes on searching when maxSolutions are found.
solveEnterOneMore(q, env) ==
    LET call == Top(q)
        solutions == Append(q.solutions, q.board)
    IN  IF call.row = env.n
        THEN Return(Push([q EXCEPT !.solutions = solutions], TRUE,
                         Step("solution-found",
                              [board |-> q.board, n |-> env.n,
                               solutionNumber |-> Len(solutions)], 16)),
                    AtLeast(Len(solutions) - 1, env.maxSolutions))
        ELSE IF q.stepCount > env.MAX_STEPS
        THEN Return(Push([q EXCEPT !.stepCount = @ + 1], TRUE,
                         Step("step-limit",
                              [n |-> env.n, solutionsFound |-> Len(q.solutions)], 0)),
                    TRUE)
        ELSE SetTop(Push([q EXCEPT !.stepCount = @ + 1], shouldSampleRow(call.row, env),
                         Step("try-row",
                              [row |-> call.row, board |-> q.board, n |-> env.n], 14)),
                    [call EXCEPT !.at = "loop"])

\* The head of a call.  row === n: the solution is recorded and the call
\* returns whether maxSolutions are found.  stepCount++ > MAX_STEPS: the
\* step-limit step, and the call returns true.  Otherwise the try-row step
\* of a sampled row, and the loop starts.
solveEnter(q, env) ==
    LET call == Top(q)
        solutions == Append(q.solutions, q.board)
    IN  IF call.row = env.n
        THEN Return(Push([q EXCEPT !.solutions = solutions], TRUE,
                         Step("solution-found",
                              [board |-> q.board, n |-> env.n,
                               solutionNumber |-> Len(solutions)], 16)),
                    AtLeast(Len(solutions), env.maxSolutions))
        ELSE IF q.stepCount > env.MAX_STEPS
        THEN Return(Push([q EXCEPT !.stepCount = @ + 1], TRUE,
                         Step("step-limit",
                              [n |-> env.n, solutionsFound |-> Len(q.solutions)], 0)),
                    TRUE)
        ELSE SetTop(Push([q EXCEPT !.stepCount = @ + 1], shouldSampleRow(call.row, env),
                         Step("try-row",
                              [row |-> call.row, board |-> q.board, n |-> env.n], 14)),
                    [call EXCEPT !.at = "loop"])

\* board[row] = col, the place-queen step of a sampled row, and the call
\* for the next row with the masks it is given.
placeQueen(q, env, cols, diag1, diag2) ==
    LET call == Top(q)
        placed == [q.board EXCEPT ![call.row + 1] = call.col]
        q1 == Push([q EXCEPT !.board = placed], shouldSampleRow(call.row, env),
                   Step("place-queen",
                        [row |-> call.row, col |-> call.col, board |-> placed,
                         n |-> env.n], 22))
    IN  [q1 EXCEPT !.stack =
            Append([@ EXCEPT ![Len(@)] = [call EXCEPT !.at = "called"]],
                   Call(call.row + 1, cols, diag1, diag2))]

\* One pass of solveBitmask's loop over the columns.
bitmaskColumn(q, env) ==
    LET call == Top(q)
        row == call.row
        col == call.col
    IN  IF isSafeBitmask(row, col, call.cols, call.diag1, call.diag2)
        THEN placeQueen(q, env,
                        call.cols \cup ShiftOne(col),
                        call.diag1 \cup ShiftOne(row - col + MAX_N),
                        call.diag2 \cup ShiftOne(row + col))
        ELSE SetTop(q, [call EXCEPT !.col = @ + 1])

shouldCheckCol(col, env) ==
    \/ env.mode = "full"
    \/ col % MathMax(1, env.n \div 4) = 0
    \/ col = 0
    \/ col = env.n - 1

\* A variant of traditionalColumn that records the check before the try.
traditionalColumnCheckFirst(q, env) ==
    LET call == Top(q)
        row == call.row
        col == call.col
        shown == shouldCheckCol(col, env) /\ shouldSampleRow(row, env)
        safe == isSafeTraditional(row, col, q.board)
        q1 == Push(q, shown,
                   Step("check-safe",
                        [row |-> row, col |-> col, safe |-> safe, board |-> q.board,
                         n |-> env.n], 21))
        q2 == Push(q1, shown,
                   Step("try-col",
                        [row |-> row, col |-> col, board |-> q.board, n |-> env.n], 20))
    IN  IF safe THEN placeQueen(q2, env, {}, {}, {})
        ELSE SetTop(q2, [call EXCEPT !.col = @ + 1])

\* One pass of solveTraditional's loop over the columns.
traditionalColumn(q, env) ==
    LET call == Top(q)
        row == call.row
        col == call.col
        shown == shouldCheckCol(col, env) /\ shouldSampleRow(row, env)
        safe == isSafeTraditional(row, col, q.board)
        q1 == Push(q, shown,
                   Step("try-col",
                        [row |-> row, col |-> col, board |-> q.board, n |-> env.n], 20))
        q2 == Push(q1, shown,
                   Step("check-safe",
                        [row |-> row, col |-> col, safe |-> safe, board |-> q.board,
                         n |-> env.n], 21))
    IN  IF safe THEN placeQueen(q2, env, {}, {}, {})
        ELSE SetTop(q2, [call EXCEPT !.col = @ + 1])

\* A variant of solveReturned that records the backtrack step of a sampled
\* row also while a stopped search unwinds.
solveReturnedBacktracksOnStop(q, env) ==
    LET call == Top(q)
        removed == [q.board EXCEPT ![call.row + 1] = -1]
        recorded == Push([q EXCEPT !.board = removed], shouldSampleRow(call.row, env),
                         Step("backtrack",
                              [row |-> call.row, col |-> call.col, board |-> removed,
                               n |-> env.n], 24))
    IN  IF q.ret THEN Return(recorded, TRUE)
        ELSE SetTop(recorded, [call EXCEPT !.col = @ + 1, !.at = "loop"])

\* The call made for col has returned.  True: this call returns true as
\* well, and the queen stays on the board.  False: board[row] = -1, the
\* backtrack step of a sampled row, and the loop goes on.
solveReturned(q, env) ==
    LET call == Top(q)
        removed == [q.board EXCEPT ![call.row + 1] = -1]
    IN  IF q.ret THEN Return(q, TRUE)
        ELSE SetTop(Push([q EXCEPT !.board = removed], shouldSampleRow(call.row, env),
                         Step("backtrack",
                              [row |-> call.row, col |-> call.col, board |-> removed,
                               n |-> env.n], 24)),
                    [call EXCEPT !.col = @ + 1, !.at = "loop"])

\* if (useBitmask && mode !== 'full'): solveBitmask is defined and called,
\* else solveTraditional.
bitmaskBranch(env) == env.useBitmask /\ env.mode # "full"

\* The next move of the innermost call; the loop over the columns ends
\* with return false.
solveStep(q, env) ==
    LET call == Top(q)
    IN  IF call.at = "enter" THEN solveEnter(q, env)
        ELSE IF call.at = "called" THEN solveReturned(q, env)
        ELSE IF call.col >= env.n THEN Return(q, FALSE)
        ELSE IF bitmaskBranch(env) THEN bitmaskColumn(q, env)
        ELSE traditionalColumn(q, env)

\* At most fuel moves, stopping when the outermost call has returned; the
\* range is halved so that the evaluation stays shallow.
RECURSIVE solveRun(_, _, _)
solveRun(q, fuel, env) ==
    IF q.stack = <<>> \/ fuel = 0 THEN q
    ELSE IF fuel = 1 THEN solveStep(q, env)
    ELSE LET left == solveRun(q, fuel \div 2, env)
         IN  IF left.stack = <<>> THEN left
             ELSE solveRun(left, fuel - fuel \div 2, env)

\* No search makes more moves: stepCount counts the calls that pass the
\* limit test, at most MAX_STEPS + 2 of them; each makes a move to enter,
\* one per column, one per call it made, one to return and one per call
\* with row === n.
Fuel(env) == (env.MAX_STEPS + 2) * (3 * env.n + 2)

\* solveBitmask(0, 0, 0, 0) or solveTraditional(0).
queensSolve(env) == solveRun(queensStart(env), Fuel(env), env)

\* A generateSteps that returns without its closing complete step.
queensFinishOmitsComplete(q, env) ==
    Push(q, Len(q.solutions) = 0, Step("no-solution", [n |-> env.n], 29)).steps

\* A variant of queensFinish that pushes the no-solution step whatever the
\* search found.
queensFinishAlwaysNoSolution(q, env) ==
    LET q1 == Push(q, TRUE, Step("no-solution", [n |-> env.n], 29))
    IN  Append(q1.steps,
               Step("complete",
                    [board |-> IF Len(q.solutions) > 0 THEN Head(q.solutions) ELSE q.board,
                     n |-> env.n,
                     solutionFound |-> Len(q.solutions) > 0,
                     solutionsCount |-> Len(q.solutions),
                     allSolutions |-> q.solutions], 30))

\* The no-solution step of a search that found nothing, then the complete
\* step; board is the first solution or the board as the search left it.
queensFinish(q, env) ==
    LET q1 == Push(q, Len(q.solutions) = 0, Step("no-solution", [n |-> env.n], 29))
    IN  Append(q1.steps,
               Step("complete",
                    [board |-> IF Len(q.solutions) > 0 THEN Head(q.solutions) ELSE q.board,
                     n |-> env.n,
                     solutionFound |-> Len(q.solutions) > 0,
                     solutionsCount |-> Len(q.solutions),
                     allSolutions |-> q.solutions], 30))

\* A variant of generateSteps whose steps all hold the one working board
\* instead of a copy of it: every payload board reads as the board at the
\* end of the search.
queensGenerateStepsSharedBoard(input) ==
    LET q == queensSolve(queensEnv(input))
        steps == queensFinish(q, queensEnv(input))
    IN  [j \in 1..Len(steps) |->
            IF steps[j].kind \in {"try-row", "try-col", "check-safe", "place-queen",
                                  "backtrack"}
            THEN [steps[j] EXCEPT !.payload.board = q.board]
            ELSE steps[j]]

queensGenerateSteps(input) == queensFinish(queensSolve(queensEnv(input)), queensEnv(input))

\* !input.n is true of 0 alone.
queensValidateInput(input) ==
    IF (input.n = 0 /\ input.nTenths = 0) \/ input.nTenths # 0 \/ input.n < 1
    THEN [valid |-> FALSE, error |-> "N must be a positive integer"]
    ELSE IF input.n > MAX_N
    THEN [valid |-> FALSE, error |-> "N must be at most 20 for safety"]
    ELSE IF input.maxSolutions # NoNumber
            /\ (Below(input.maxSolutions, 1) \/ Above(input.maxSolutions, 100))
    THEN [valid |-> FALSE, error |-> "Max solutions must be between 1 and 100"]
    ELSE [valid |-> TRUE, error |-> Undefined]

\* ------------------------------------------------------------- callers
\* A caller holds one input object, calls validateInput and, when the
\* input is valid, generateSteps.  The inputs are the small ones in full
\* and, beyond them, the values the runners' branches turn on.
MaxFibN == 12

MaxQueensN == 5

FibProbes == {20, 50, 51, 78, 79, 100, 1000001, 2000000}

\* The last set but one asks for full mode with more indices to tabulate
\* than MAX_DETAILED_STEPS; the last holds an n that is not an integer, 2.5.
FibInputs ==
    [n : (-1..MaxFibN) \cup FibProbes, nTenths : {0},
     strategy : {Undefined, "iterative", "dp-array", "fast-doubling"},
     detailLevel : {NoNumber, <<-1>>, <<0>>, <<50>>, <<100>>, <<101>>, <<150>>},
     mode : {Undefined, "full", "condensed", "computation-only"}]
    \cup [n : {MAX_DP_ARRAY_SIZE + 1}, nTenths : {0}, strategy : {Undefined, "iterative"},
          detailLevel : {NoNumber}, mode : {Undefined, "condensed"}]
    \cup [n : {MAX_DETAILED_STEPS + 2}, nTenths : {0}, strategy : {"dp-array"},
          detailLevel : {NoNumber}, mode : {"full"}]
    \cup [n : {2}, nTenths : {5}, strategy : {Undefined, "iterative"},
          detailLevel : {NoNumber, <<50>>}, mode : {Undefined, "full"}]

\* Board sizes past the small ones, with every option left to its default:
\* 13 is solved by the bitmask solver in sampling mode, 20 runs into the
\* step limit of fast-solve mode.
QueensProbes == {13, MAX_N}

LimitedWithSolutionsN == 11

\* nQueensRunner.getInitialInput()
queensGetInitialInput ==
    [n |-> 8, nTenths |-> 0, maxSolutions |-> <<1>>, mode |-> "full",
     useBitmask |-> <<FALSE>>]

\* Then the largest board with the traditional solver, which runs into the
\* step limit as well, a board whose search for 100 solutions runs into it
\* with some of them found, and the default board in the two sampled modes, where every second
\* row is left out.  The last two sets hold an n that is not an integer,
\* 4.5, and values of maxSolutions that are not, 0.5, 2.5 and 100.5.
QueensInputs ==
    [n : (0..MaxQueensN) \cup {MAX_N + 1}, nTenths : {0},
     maxSolutions : {NoNumber, <<0>>, <<1>>, <<2>>, <<10>>, <<100>>, <<101>>},
     mode : {Undefined, "full", "sampling", "fast-solve"},
     useBitmask : {NoFlag, <<TRUE>>, <<FALSE>>}]
    \cup {queensGetInitialInput}
    \cup [n : QueensProbes, nTenths : {0}, maxSolutions : {NoNumber}, mode : {Undefined},
          useBitmask : {NoFlag}]
    \cup [n : {MAX_N}, nTenths : {0}, maxSolutions : {NoNumber}, mode : {"fast-solve"},
          useBitmask : {<<FALSE>>}]
    \cup [n : {LimitedWithSolutionsN}, nTenths : {0}, maxSolutions : {<<100>>},
          mode : {"fast-solve"}, useBitmask : {<<TRUE>>}]
    \cup [n : {8}, nTenths : {0}, maxSolutions : {<<1>>}, mode : {"sampling", "fast-solve"},
          useBitmask : {<<TRUE>>, <<FALSE>>}]
    \cup [n : {4}, nTenths : {5}, maxSolutions : {NoNumber, <<1>>},
          mode : {Undefined, "full"}, useBitmask : {NoFlag}]
    \cup [n : {4, MaxQueensN}, nTenths : {0},
          maxSolutions : {<<0, 5>>, <<2, 5>>, <<100, 5>>},
          mode : {Undefined, "fast-solve"}, useBitmask : {NoFlag, <<TRUE>>}]

BuilderInit ==
    /\ PlaybackInit
    /\ \/ runner = "fibonacci" /\ runInput \in FibInputs
       \/ runner = "n-queens" /\ runInput \in QueensInputs
    /\ validation = NotValidated
    /\ trace = <<>>
    /\ previousTrace = <<>>
    /\ pc = "input"

fibCallValidateInput ==
    /\ runner = "fibonacci"
    /\ pc = "input"
    /\ validation' = fibValidateInput(runInput)
    /\ pc' = "validated"
    /\ UNCHANGED <<pvars, runner, runInput, trace, previousTrace>>

fibCallGenerateSteps ==
    /\ runner = "fibonacci"
    /\ pc = "validated"
    /\ validation.valid
    /\ trace' = fibGenerateSteps(runInput)
    /\ pc' = "generated"
    /\ UNCHANGED <<pvars, runner, runInput, validation, previousTrace>>

queensCallValidateInput ==
    /\ runner = "n-queens"
    /\ pc = "input"
    /\ validation' = queensValidateInput(runInput)
    /\ pc' = "validated"
    /\ UNCHANGED <<pvars, runner, runInput, trace, previousTrace>>

queensCallGenerateSteps ==
    /\ runner = "n-queens"
    /\ pc = "validated"
    /\ validation.valid
    /\ trace' = queensGenerateSteps(runInput)
    /\ pc' = "generated"
    /\ UNCHANGED <<pvars, runner, runInput, validation, previousTrace>>

\* The caller calls generateSteps once more with the input object it
\* holds and keeps the trace it had.
fibCallGenerateStepsAgain ==
    /\ runner = "fibonacci"
    /\ pc = "generated"
    /\ previousTrace' = trace
    /\ trace' = fibGenerateSteps(runInput)
    /\ pc' = "repeated"
    /\ UNCHANGED <<pvars, runner, runInput, validation>>

queensCallGenerateStepsAgain ==
    /\ runner = "n-queens"
    /\ pc = "generated"
    /\ previousTrace' = trace
    /\ trace' = queensGenerateSteps(runInput)
    /\ pc' = "repeated"
    /\ UNCHANGED <<pvars, runner, runInput, validation>>

BuilderNext ==
    \/ fibCallValidateInput
    \/ fibCallGenerateSteps
    \/ fibCallGenerateStepsAgain
    \/ queensCallValidateInput
    \/ queensCallGenerateSteps
    \/ queensCallGenerateStepsAgain

BuilderSpec == BuilderInit /\ [][BuilderNext]_vars

\* --------------------------------------------------- the safety checks
\* solveBitmask(0, 0, 0, 0), and the masks a call for row + 1 is given once
\* the queen of row stands on col: the bit of the column and of the two
\* diagonals is set in the masks of the call for row.
RECURSIVE masksOf(_, _)
masksOf(board, row) ==
    IF row = 0 THEN [cols |-> {}, diag1 |-> {}, diag2 |-> {}]
    ELSE LET m == masksOf(board, row - 1)
             col == board[row]
         IN  [cols |-> m.cols \cup ShiftOne(col),
              diag1 |-> m.diag1 \cup ShiftOne((row - 1) - col + MAX_N),
              diag2 |-> m.diag2 \cup ShiftOne((row - 1) + col)]

MaxSafetyN == 4

\* Boards a search for 13, 17, 19 and 20 queens holds while it runs: the
\* first solution for 13 and for 17, and the queens of rows 0..13 and 0..12
\* early in the search for 19 and for 20.
SearchBoards ==
    {<<0, 2, 4, 1, 8, 11, 9, 12, 3, 5, 7, 10, 6>>,
     <<0, 2, 4, 1, 7, 10, 14, 6, 15, 13, 16, 3, 5, 8, 11, 9, 12>>}

EarlySearch ==
    {[n |-> 19, board |-> <<0, 2, 4, 1, 3, 8, 11, 13, 15, 17, 5, 7, 9, 6>>],
     [n |-> MAX_N, board |-> <<0, 2, 4, 1, 3, 8, 10, 12, 15, 5, 18, 6, 9>>]}

\* A call of the two checks: a square of row, and the queens of the rows
\* before it, one in each row.
SafetyInputs ==
    UNION {[n : {n}, row : {row}, col : 0..n - 1, board : [1..row -> 0..n - 1]] :
           <<n, row>> \in {x \in (1..MaxSafetyN) \X (0..MaxSafetyN - 1) : x[2] < x[1]}}
    \cup UNION {[n : {Len(b)}, row : {row}, col : 0..Len(b) - 1, board : {SubSeq(b, 1, row)}] :
                <<b, row>> \in {x \in SearchBoards \X (0..MAX_N - 1) : x[2] < Len(x[1])}}
    \cup UNION {[n : {e.n}, row : {Len(e.board)}, col : 0..e.n - 1, board : {e.board}] :
                e \in EarlySearch}

SafetyInit ==
    /\ PlaybackInit
    /\ runner = "isSafe"
    /\ runInput \in SafetyInputs
    /\ validation = NotValidated
    /\ trace = <<>>
    /\ previousTrace = <<>>
    /\ pc = "input"

callIsSafeTraditional ==
    /\ runner = "isSafe"
    /\ pc = "input"
    /\ trace' = <<isSafeTraditional(runInput.row, runInput.col, runInput.board)>>
    /\ pc' = "traditional"
    /\ UNCHANGED <<pvars, runner, runInput, validation, previousTrace>>

callIsSafeBitmask ==
    /\ runner = "isSafe"
    /\ pc = "traditional"
    /\ \E m \in {masksOf(runInput.board, runInput.row)} :
          trace' = Append(trace, isSafeBitmask(runInput.row, runInput.col,
                                               m.cols, m.diag1, m.diag2))
    /\ pc' = "bitmask"
    /\ UNCHANGED <<pvars, runner, runInput, validation, previousTrace>>

SafetyNext ==
    \/ callIsSafeTraditional
    \/ callIsSafeBitmask

SafetySpec == SafetyInit /\ [][SafetyNext]_vars

\* ------------------------------------------------------ playback claims
LastStep(s) == MathMax(0, s.totalSteps - 1)

Frame(s, t, fields) == \A f \in fields : t[f] = s[f]

RECURSIVE nextStepTimes(_, _)
nextStepTimes(s, k) == IF k <= 0 THEN s ELSE nextStepTimes(nextStepState(s), k - 1)

\* C1: the cursor stays inside the loaded trace: 0 <= currentStep <
\* totalSteps when the trace is not empty and currentStep = 0 when it is,
\* totalSteps being the length of the loaded trace, after any operations.
C1_CursorInRange ==
    /\ state.totalSteps = Len(state.steps)
    /\ state.currentStep >= 0
    /\ state.currentStep <= LastStep(state)

\* C1 witness: a timer-driven advance has just put the cursor on the last
\* step of a longest trace.
C1_Witness ==
    /\ renderDue
    /\ state.totalSteps = MaxLen
    /\ state.currentStep = MaxLen - 1
    /\ effDeps = <<TRUE, MaxLen - 2, MaxLen, state.speed>>

\* C2: at most one scheduled advance is pending, none is pending unless
\* the controller is playing, and a scheduled advance fires only while
\* playing and moves the cursor by at most one step.
C2_TimerDiscipline ==
    /\ [](Cardinality(timers) <= 1)
    /\ [](timers # {} => state.isPlaying /\ timers = {t \in timers : t.id = timeoutRef})
    /\ [][timerFires =>
            /\ state.isPlaying
            /\ state'.currentStep - state.currentStep \in {0, 1}]_vars

\* C2 witness: playback was paused in the middle of a trace while an advance
\* was scheduled, and no advance is pending any more.
C2_Witness ==
    /\ renderDue
    /\ effDeps[1] /\ effDeps[2] < effDeps[3] - 1
    /\ ~state.isPlaying /\ state.isPaused
    /\ timers = {}

\* C3: reset() in any state leaves cursor 0, not playing, not paused, no
\* result and no scheduled advance, and keeps the trace and the speed.
C3_Reset ==
    [][reset =>
        /\ state'.currentStep = 0
        /\ ~state'.isPlaying /\ ~state'.isPaused
        /\ state'.result = Null
        /\ timers' = {}
        /\ Frame(state, state', {"steps", "totalSteps", "speed"})]_vars

\* C3 witness: reset() has acted on a controller that was playing past the
\* first step with a result set.
C3_Witness ==
    /\ renderDue
    /\ effDeps[1] /\ effDeps[2] > 0
    /\ state.currentStep = 0 /\ ~state.isPlaying /\ ~state.isPaused
    /\ state.totalSteps = effDeps[3]
    /\ timers = {} /\ timeoutRef = 0

\* C4: load(trace) in any state replaces the trace, sets the cursor to 0,
\* clears the result and leaves the controller idle (not playing, not
\* paused).
C4_LoadGoesIdle ==
    [][setSteps =>
        /\ state'.steps = stepsRef' /\ state'.totalSteps = Len(stepsRef')
        /\ state'.currentStep = 0
        /\ state'.result = Null
        /\ ~state'.isPlaying /\ ~state'.isPaused]_vars

\* C5: left alone, auto-play advances the cursor by exactly one step per
\* fired advance and ends not playing, not paused, on the last step (on
\* step 0 of an empty trace); it never moves the cursor back.
C5_AutoPlayRunsToEnd ==
    /\ [][timerFires =>
            /\ state'.currentStep = state.currentStep + 1
            /\ state'.currentStep <= LastStep(state)]_vars
    /\ [][quiet => state'.currentStep >= state.currentStep]_vars
    /\ (quiet /\ state.isPlaying) ~>
            (/\ ~state.isPlaying /\ ~state.isPaused
             /\ state.currentStep = LastStep(state)
             /\ timers = {} /\ ~renderDue)

\* C5 witness: left alone, the controller has played a longest trace to its
\* last step and the effect has just stopped it.
C5_Witness ==
    /\ quiet /\ renderDue
    /\ effDeps = <<TRUE, MaxLen - 1, MaxLen, state.speed>>
    /\ ~state.isPlaying /\ ~state.isPaused
    /\ state.currentStep = MaxLen - 1

\* C6: pause() in any state cancels the scheduled advance, leaves the
\* controller paused and not playing, and changes nothing else; play()
\* afterwards resumes at the same cursor.
C6_Pause ==
    /\ [][pause =>
            /\ timers' = {}
            /\ ~state'.isPlaying /\ state'.isPaused
            /\ Frame(state, state',
                     {"currentStep", "steps", "totalSteps", "speed", "result"})]_vars
    /\ [][play =>
            /\ state'.isPlaying /\ ~state'.isPaused
            /\ Frame(state, state',
                     {"currentStep", "steps", "totalSteps", "speed", "result"})]_vars

\* C6 witness: pause() has acted while an advance was scheduled in the
\* middle of a trace with a result set.
C6_Witness ==
    /\ renderDue
    /\ effDeps[1] /\ effDeps[2] > 0 /\ effDeps[2] < effDeps[3] - 1
    /\ state.isPaused /\ ~state.isPlaying
    /\ state.currentStep = effDeps[2]
    /\ state.result # Null
    /\ timers = {}

\* C7: step(+1) moves the cursor to min(cursor+1, length-1) and step(-1) to
\* max(cursor-1, 0) (the cursor of an empty trace stays 0); length-1 steps
\* forward from a freshly loaded trace end on its last step; step(+1) on the
\* last step keeps the cursor and leaves the controller not playing, also
\* when it was playing.
C7_ManualStep ==
    /\ [][nextStep =>
            /\ state'.currentStep =
                 IF state.totalSteps = 0 THEN 0
                 ELSE MathMin(state.currentStep + 1, state.totalSteps - 1)
            /\ state.currentStep >= state.totalSteps - 1 => ~state'.isPlaying]_vars
    /\ [][prevStep => state'.currentStep = MathMax(state.currentStep - 1, 0)]_vars
    /\ [](\A tr \in Traces \ {<<>>} :
            nextStepTimes(setStepsState(state, tr), Len(tr) - 1).currentStep
                = Len(tr) - 1)
    /\ [](LET atEnd == [state EXCEPT !.isPlaying = TRUE,
                                     !.currentStep = LastStep(state)]
          IN  nextStepState(atEnd) = [atEnd EXCEPT !.isPlaying = FALSE])

\* C7 witness: step(+1) has acted on the last step but one of a longest
\* trace while playing, and the cursor is on the last step.
C7_Witness ==
    /\ renderDue
    /\ effDeps = <<TRUE, MaxLen - 2, MaxLen, state.speed>>
    /\ state.currentStep = MaxLen - 1
    /\ timers # {}

\* C8: setSpeed(s) changes the speed setting and nothing else, cancels and
\* adds no advance, and the advance pending after the following render has
\* the delay of the new speed: slow 1500, medium 800, fast 300.
C8_SetSpeed ==
    /\ [][setSpeed =>
            /\ Frame(state, state', {"isPlaying", "isPaused", "currentStep",
                                     "totalSteps", "steps", "result"})
            /\ state'.speed \in Speeds
            /\ timers' = timers]_vars
    /\ [](~renderDue =>
            /\ \A t \in timers : t.delay = SPEED_MAP[state.speed]
            /\ Cardinality(timers) =
                 IF state.isPlaying /\ state.currentStep < state.totalSteps - 1
                 THEN 1 ELSE 0)
    /\ [](SPEED_MAP["slow"] = 1500 /\ SPEED_MAP["medium"] = 800
          /\ SPEED_MAP["fast"] = 300)

\* C8 witness: the speed was changed to slow while an advance was pending,
\* and the rendered controller holds one advance with the slow delay.
C8_Witness ==
    /\ ~renderDue
    /\ state.isPlaying /\ state.speed = "slow"
    /\ state.currentStep > 0
    /\ \E t \in timers : t.delay = 1500

\* ------------------------------------------------------- builder claims
TerminalKinds == {"complete", "no-solution", "step-limit"}

HasKind(tr, kind) == \E i \in 1..Len(tr) : tr[i].kind = kind

\* C9: every trace a builder returns for a valid input is non-empty, starts
\* with an init step and ends with a complete, no-solution or step-limit
\* step.
C9_TraceWellFormed ==
    pc = "generated" =>
        /\ Len(trace) > 0
        /\ trace[1].kind = "init"
        /\ trace[Len(trace)].kind \in TerminalKinds

\* An N-Queens search that ran into the step limit has returned its trace.
C9_Witness ==
    /\ pc = "generated"
    /\ runner = "n-queens"
    /\ HasKind(trace, "step-limit")

\* F(0) = 0, F(1) = 1, F(k) = F(k-1) + F(k-2).  FNext(p, k) takes the pair
\* <<F(j), F(j+1)>> to <<F(j+k), F(j+k+1)>> by k uses of the recurrence; k
\* is halved so that the evaluation stays shallow.
RECURSIVE FNext(_, _)
FNext(p, k) ==
    IF k = 0 THEN p
    ELSE IF k = 1 THEN <<p[2], Add(p[1], p[2])>>
    ELSE CHOOSE r \in {FNext(h, k - k \div 2) : h \in {FNext(p, k \div 2)}} : TRUE

FPair(k) == FNext(<<Zero, One>>, k)

F(n) == FPair(n)[1]

\* The number a result denotes: a number as it is, text by its digits.
ResultValue(r) == IF r.t = "number" THEN r.v ELSE ParseDigits(r.v)

\* C10: the result in the final complete step of a Fibonacci trace is F(n)
\* whichever strategy produced it, and fastDoubling(n) is F(n).
C10_FibonacciExact ==
    (pc = "generated" /\ runner = "fibonacci") =>
        /\ trace[Len(trace)].kind = "complete"
        /\ ResultValue(trace[Len(trace)].payload.result) = F(runInput.n)
        /\ fastDoubling(runInput.n) = F(runInput.n)

\* A caller holds the trace a builder returned for its input.
FibDone == pc = "generated" /\ runner = "fibonacci"

QueensDone == pc = "generated" /\ runner = "n-queens"

Kinds(tr) == [i \in 1..Len(tr) |-> tr[i].kind]

\* C11 as stated: for n = 0 and n = 1 the Fibonacci trace has exactly two
\* steps, base-case then complete, with result n.
C11_BaseCaseTwoSteps ==
    (FibDone /\ runInput.n \in {0, 1}) =>
        /\ Kinds(trace) = <<"base-case", "complete">>
        /\ ResultValue(trace[Len(trace)].payload.result) = Limbs(runInput.n)

\* C11 amended: for n = 0 and n = 1, whatever the strategy and the mode, the
\* Fibonacci trace is exactly init, base-case, complete; the base-case and
\* the complete step carry the number n as result, and no value is
\* computed.
C11_BaseCaseAfterInit ==
    (FibDone /\ runInput.n \in {0, 1}) =>
        /\ Kinds(trace) = <<"init", "base-case", "complete">>
        /\ trace[2].payload.result = Num(Limbs(runInput.n))
        /\ trace[3].payload.result = Num(Limbs(runInput.n))

\* The trace for n = 1 is back, asked for with the iterative strategy in
\* computation-only mode.
C11_Witness ==
    /\ FibDone
    /\ runInput.n = 1
    /\ runInput.strategy = "iterative"
    /\ runInput.mode = "computation-only"
    /\ Len(trace) = 3

\* C12: an input without a mode gets full for n <= 50, condensed for
\* 50 < n <= 10000 and computation-only above, the init step records it and
\* the trace is the one the same input with that mode supplied gets; a
\* supplied mode is recorded as given for n <= 10000, and it is the
\* computation-only one exactly when the trace of an n >= 2 has a
\* compute-start step.
DerivedMode(n) ==
    IF n <= 50 THEN "full" ELSE IF n <= 10000 THEN "condensed" ELSE "computation-only"

C12_ModeDerivation ==
    FibDone =>
        /\ trace[1].kind = "init"
        /\ runInput.mode = Undefined =>
              /\ trace[1].payload.mode = DerivedMode(runInput.n)
              /\ \A t \in {fibGenerateSteps([runInput EXCEPT !.mode = DerivedMode(runInput.n)])} :
                    trace = t
        /\ (runInput.mode # Undefined /\ runInput.n <= 10000) =>
              /\ trace[1].payload.mode = runInput.mode
              /\ runInput.n >= 2 =>
                    (HasKind(trace, "compute-start") <=> runInput.mode = "computation-only")

C12_Witness ==
    /\ FibDone
    /\ runInput.mode = Undefined
    /\ runInput.n > 10000
    /\ trace[1].payload.mode = "computation-only"

\* C13: for n >= 2 with n > 10000 or a supplied mode computation-only, the
\* trace is init, compute-start, complete and nothing else, no step
\* carries a value table, and the complete step carries the digits of the
\* fast-doubling result, which for the n small enough to recompute by
\* repeated addition are the digits of F(n).
ComputationOnlyCase ==
    /\ FibDone
    /\ runInput.n >= 2
    /\ (runInput.n > 10000 \/ runInput.mode = "computation-only")

C13_ComputationOnlyTrace ==
    ComputationOnlyCase =>
        /\ Kinds(trace) = <<"init", "compute-start", "complete">>
        /\ \A i \in 1..Len(trace) : "dpLen" \notin DOMAIN trace[i].payload
        /\ trace[3].payload.result.t = "string"
        /\ trace[3].payload.result.v = toString(fastDoubling(runInput.n))
        /\ runInput.n <= 100 => ParseDigits(trace[3].payload.result.v) = F(runInput.n)

C13_Witness ==
    /\ ComputationOnlyCase
    /\ runInput.n > 10000
    /\ runInput.mode = "condensed"
    /\ runInput.strategy = "iterative"
    /\ Len(trace) = 3

\* The placements of n queens, none attacking another, as the column of
\* each row, built row by row; Q(n) is their number.
NoAttack(s, c) == \A i \in 1..Len(s) : s[i] # c /\ Abs(s[i] - c) # Len(s) + 1 - i

RECURSIVE PlacementsOfRows(_, _)
PlacementsOfRows(n, rows) ==
    IF rows = 0 THEN {<<>>}
    ELSE UNION {{Append(s, c) : c \in {c \in 0..n - 1 : NoAttack(s, c)}} :
                  s \in PlacementsOfRows(n, rows - 1)}

Placements(n) == PlacementsOfRows(n, n)

Q(n) == Cardinality(Placements(n))

IsPlacement(board, n) ==
    /\ Len(board) = n
    /\ \A i \in 1..n : board[i] \in 0..n - 1
    /\ \A i, j \in 1..n :
          i < j => board[i] # board[j] /\ Abs(board[i] - board[j]) # j - i

Count(tr, kind) == Cardinality({i \in 1..Len(tr) : tr[i].kind = kind})

\* C14: when a search for a valid input, maxSolutions an integer or
\* absent, has not run into the step limit,
\* the number of solution-found steps and the solutionsCount of the
\* complete step are min(maxSolutions, Q(n)): the solutions are distinct
\* placements, never more than maxSolutions, and fewer only when they are
\* all there are; n = 4 with maxSolutions 10 gives 2, n = 8 with
\* maxSolutions 1 gives 1, n = 1 gives 1, n = 2 and n = 3 give 0; a
\* no-solution step is there exactly when the count is 0.
SolutionsCount == trace[Len(trace)].payload.solutionsCount

C14_SolutionCount ==
    (QueensDone /\ Len(runInput.maxSolutions) <= 1 /\ ~HasKind(trace, "step-limit")) =>
        LET n == runInput.n
            maxSolutions == trace[1].payload.maxSolutions[1]
            found == trace[Len(trace)].payload.allSolutions
        IN  /\ trace[Len(trace)].kind = "complete"
            /\ Count(trace, "solution-found") = SolutionsCount
            /\ Len(found) = SolutionsCount
            /\ \A i \in 1..Len(found) : IsPlacement(found[i], n)
            /\ \A i, j \in 1..Len(found) : i # j => found[i] # found[j]
            /\ SolutionsCount <= maxSolutions
            /\ SolutionsCount < maxSolutions => (n <= MaxQueensN + 1 /\ SolutionsCount = Q(n))
            /\ (n = 4 /\ runInput.maxSolutions = <<10>>) => SolutionsCount = 2
            /\ (n = 8 /\ runInput.maxSolutions = <<1>>) => SolutionsCount = 1
            /\ n = 1 => SolutionsCount = 1
            /\ n \in {2, 3} => SolutionsCount = 0
            /\ HasKind(trace, "no-solution") <=> SolutionsCount = 0

C14_Witness ==
    /\ QueensDone
    /\ runInput.n = 4
    /\ runInput.maxSolutions = <<10>>
    /\ SolutionsCount = 2
    /\ Count(trace, "solution-found") = 2

\* C15: an input without a mode gets full for n <= 12, sampling for
\* 12 < n <= 16 and fast-solve above; the bitmask solver is the one that
\* runs exactly when useBitmask is true, if it is supplied, or n > 12, if
\* it is not.  Which solver ran shows in the trace of a full or sampling
\* search, where only solveTraditional pushes check-safe steps; in
\* fast-solve mode neither solver shows its columns and the branch taken
\* is read off the code.
BitmaskRan ==
    IF trace[1].payload.mode = "fast-solve"
    THEN bitmaskBranch(queensEnv(runInput))
    ELSE ~HasKind(trace, "check-safe")

C15_ModeAndVariant ==
    QueensDone =>
        /\ runInput.mode = Undefined =>
              trace[1].payload.mode =
                  (IF runInput.n <= 12 THEN "full"
                   ELSE IF runInput.n <= 16 THEN "sampling" ELSE "fast-solve")
        /\ BitmaskRan <=> (IF runInput.useBitmask # NoFlag
                           THEN runInput.useBitmask[1] ELSE runInput.n > 12)

\* C16: validateInput answers every input, with valid false and an error
\* text exactly when the input is out of range and with valid true and no
\* error otherwise.  Fibonacci: n not an integer, n < 0, n > 1000000, or
\* detailLevel present and outside 0..100.  N-Queens: n not an integer,
\* n < 1, n > 20, or maxSolutions present and not an integer in 1..100.
FibOutOfRange(input) ==
    \/ input.nTenths # 0
    \/ input.n < 0
    \/ input.n > 1000000
    \/ /\ input.detailLevel # NoNumber
       /\ (input.detailLevel[1] < 0 \/ input.detailLevel[1] > 100)

QueensOutOfRange(input) ==
    \/ input.nTenths # 0
    \/ input.n < 1
    \/ input.n > 20
    \/ /\ input.maxSolutions # NoNumber
       /\ ~(Len(input.maxSolutions) = 1 /\ input.maxSolutions[1] \in 1..100)

C16_ValidationStructured ==
    pc # "input" =>
        /\ validation.valid \in BOOLEAN
        /\ validation.valid <=> validation.error = Undefined
        /\ runner = "fibonacci" => (~validation.valid <=> FibOutOfRange(runInput))
        /\ runner = "n-queens" => (~validation.valid <=> QueensOutOfRange(runInput))

SteppingCase ==
    /\ FibDone
    /\ 2 <= runInput.n
    /\ runInput.n <= 10000
    /\ runInput.strategy \in {Undefined, "iterative", "dp-array"}
    /\ trace[1].payload.mode \in {"full", "condensed"}

StatedDetailLevel == IF runInput.detailLevel = NoNumber THEN 50 ELSE runInput.detailLevel[1]

StatedRateDivisor ==
    IF runInput.strategy = "iterative"
    THEN 100 - StatedDetailLevel
    ELSE MathMax(1, (100 - StatedDetailLevel) * 10)

ComputeAt == {j \in 1..Len(trace) : trace[j].kind = "compute"}

ComputedIndices == {trace[j].payload.i : j \in ComputeAt}

PairsInOrder ==
    /\ \A j \in ComputeAt :
          /\ j < Len(trace)
          /\ trace[j + 1].kind = "store"
          /\ trace[j + 1].payload.i = trace[j].payload.i
          /\ (j + 2 <= Len(trace) /\ trace[j + 2].kind = "compute") =>
                trace[j].payload.i < trace[j + 2].payload.i
    /\ \A j \in 1..Len(trace) :
          trace[j].kind = "store" => (j > 1 /\ trace[j - 1].kind = "compute")
    /\ Cardinality(ComputeAt) = Cardinality(ComputedIndices)

SampledBy(rate) ==
    {i \in 2..runInput.n : i <= 10 \/ i = runInput.n \/ JsMod(i, rate) = 0}

C18_SamplingRule ==
    SteppingCase =>
        /\ PairsInOrder
        /\ trace[1].payload.mode = "full" => ComputedIndices = 2..runInput.n
        /\ trace[1].payload.mode = "condensed" =>
              /\ StatedRateDivisor > 0
              /\ ComputedIndices =
                    SampledBy(<<MathMax(1, runInput.n \div StatedRateDivisor)>>)

\* C19: in condensed mode, for the same n and strategy, a trace made with
\* a detailLevel d2 in 0..100 has at least as many compute and store steps
\* as the trace made with a detailLevel d1 <= d2; so 100 gives the densest
\* trace and 0 the sparsest.
ComparedDetailLevels == {0, 25, 50, 75, 100}

ComputeAndStore(tr) == Count(tr, "compute") + Count(tr, "store")

CondensedCase ==
    /\ SteppingCase
    /\ trace[1].payload.mode = "condensed"
    /\ runInput.detailLevel # NoNumber

C19_DetailMonotone ==
    CondensedCase =>
        \A d2 \in ComparedDetailLevels :
            runInput.detailLevel[1] <= d2 =>
                \A t \in {fibGenerateSteps([runInput EXCEPT !.detailLevel = <<d2>>])} :
                    ComputeAndStore(t) >= ComputeAndStore(trace)

\* The try-row, place-queen and backtrack steps of a trace, and the rows
\* the stated rule keeps: r mod max(1, floor(n / 4)) = 0, r = 0, r = n - 1.
IsRowStep(s) == s.kind \in {"try-row", "place-queen", "backtrack"}

RowSteps(tr) == SelectSeq(tr, IsRowStep)

StatedRow(s) ==
    \/ s.payload.row % MathMax(1, runInput.n \div 4) = 0
    \/ s.payload.row = 0
    \/ s.payload.row = runInput.n - 1

\* What the same search records in full mode.
FullModeTrace == queensGenerateSteps([runInput EXCEPT !.mode = "full"])

\* A full-mode trace shows every row: the search enters row 0, every safe
\* column is followed by its placement, every placement by the entry into
\* the next row or by the solution, every entry below row 0 follows a
\* placement, and the queens placed and not removed are those of a search
\* that stopped on its last solution.
FullModeRecordsEveryRow ==
    /\ trace[2].kind = "try-row" /\ trace[2].payload.row = 0
    /\ \A j \in 1..Len(trace) - 1 :
          /\ (trace[j].kind = "check-safe" /\ trace[j].payload.safe) =>
                /\ trace[j + 1].kind = "place-queen"
                /\ trace[j + 1].payload.row = trace[j].payload.row
                /\ trace[j + 1].payload.col = trace[j].payload.col
          /\ trace[j].kind = "place-queen" =>
                IF trace[j].payload.row = runInput.n - 1
                THEN trace[j + 1].kind = "solution-found"
                ELSE /\ trace[j + 1].kind = "try-row"
                     /\ trace[j + 1].payload.row = trace[j].payload.row + 1
          /\ (trace[j + 1].kind = "try-row" /\ trace[j + 1].payload.row > 0) =>
                trace[j].kind = "place-queen"
    /\ Count(trace, "place-queen") - Count(trace, "backtrack") =
          (IF AtLeast(SolutionsCount, trace[1].payload.maxSolutions)
           THEN runInput.n ELSE 0)

SearchEnd == queensSolve(queensEnv(runInput))

\* stepCount counts the calls that reach the limit test; the call that
\* fails it pushes the step-limit step and tries no column.
CallsTryingColumns(q) ==
    q.stepCount - (IF HasKind(trace, "step-limit") THEN 1 ELSE 0)

StatedCeiling ==
    IF trace[1].payload.mode = "full" THEN 100000
    ELSE IF trace[1].payload.mode = "sampling" THEN 50000 ELSE 10000

\* C21: the calls that enter a row below n and go on to try its columns
\* are never more than the ceiling of the mode, 100000 in full, 50000 in
\* sampling and 10000 in fast-solve mode, with either solver, and the
\* search comes to an end.
C21_StepCeiling ==
    QueensDone =>
        \A q \in {SearchEnd} :
            /\ q.stack = <<>>
            /\ CallsTryingColumns(q) <= StatedCeiling

SearchKinds ==
    {"try-row", "try-col", "check-safe", "place-queen", "backtrack", "solution-found"}

StepLimitAt == {j \in 1..Len(trace) : trace[j].kind = "step-limit"}

\* C22: the limit test fails, that is the counter it reads is above the
\* ceiling of the mode, exactly when the trace has a step-limit step; it
\* then has exactly one, no search step comes after it, and the
\* solutionsFound it reports is the solutionsCount of the complete step.
C22_AbortOnStepLimit ==
    QueensDone =>
        /\ \A q \in {SearchEnd} : q.stepCount - 1 > StatedCeiling <=> StepLimitAt # {}
        /\ StepLimitAt # {} =>
              /\ Cardinality(StepLimitAt) = 1
              /\ \A p \in StepLimitAt :
                    /\ \A j \in p + 1..Len(trace) : trace[j].kind \notin SearchKinds
                    /\ trace[p].payload.solutionsFound = SolutionsCount

C22_Witness ==
    /\ QueensDone
    /\ StepLimitAt # {}
    /\ SolutionsCount > 0
    /\ trace[Len(trace) - 1].kind = "step-limit"

SolutionFoundAt == {j \in 1..Len(trace) : trace[j].kind = "solution-found"}

LexLess(a, b) ==
    \E i \in 1..Len(a) : /\ a[i] < b[i]
                         /\ \A k \in 1..i - 1 : a[k] = b[k]

IntegerMaxSolutions == Len(runInput.maxSolutions) <= 1

StatedMaxSolutions == IF runInput.maxSolutions = <<>> THEN 1 ELSE runInput.maxSolutions[1]

\* C23: stop at maxSolutions.  For an integer maxSolutions, a trace has at
\* most maxSolutions solution-found steps; their solutionNumber values are
\* 1, 2, 3, ... in trace order; their boards are strictly ascending in the
\* lexicographic order of the column vectors (hence pairwise distinct); and
\* the maxSolutions-th solution-found step is followed directly by the
\* complete step, the last step of the trace.
C23_StopAtMaxSolutions ==
    (QueensDone /\ IntegerMaxSolutions) =>
        /\ Cardinality(SolutionFoundAt) <= StatedMaxSolutions
        /\ \A j \in SolutionFoundAt :
              /\ trace[j].payload.solutionNumber = Cardinality({k \in SolutionFoundAt : k <= j})
              /\ trace[j].payload.solutionNumber = StatedMaxSolutions =>
                    /\ j + 1 = Len(trace)
                    /\ trace[j + 1].kind = "complete"
        /\ \A j, k \in SolutionFoundAt :
              j < k => LexLess(trace[j].payload.board, trace[k].payload.board)

C23_Witness ==
    /\ QueensDone /\ IntegerMaxSolutions
    /\ StatedMaxSolutions = 2 /\ Cardinality(SolutionFoundAt) = 2
    /\ runInput.n = 5 /\ trace[1].payload.mode = "full"
    /\ trace[Len(trace) - 1].kind = "solution-found"

NoSolutionAt == {j \in 1..Len(trace) : trace[j].kind = "no-solution"}

\* C24: no-solution reporting.  A trace has exactly one no-solution step
\* when no solution was found and none when one was; the no-solution step
\* comes after every search step and only the complete step follows it,
\* with solutionFound false and solutionsCount 0.
C24_NoSolutionReporting ==
    QueensDone =>
        /\ Cardinality(NoSolutionAt) = (IF SolutionFoundAt = {} THEN 1 ELSE 0)
        /\ \A p \in NoSolutionAt :
              /\ \A j \in 1..Len(trace) :
                    trace[j].kind \in SearchKinds => j < p
              /\ p + 1 = Len(trace)
              /\ trace[p + 1].kind = "complete"
              /\ trace[p + 1].payload.solutionFound = FALSE
              /\ trace[p + 1].payload.solutionsCount = 0

C24_Witness ==
    /\ QueensDone /\ runInput.n = 3
    /\ NoSolutionAt = {Len(trace) - 1}
    /\ trace[Len(trace) - 2].kind = "backtrack"

\* C25: the bitmask and the traditional safety check agree.  For n in
\* 1..20, a square (row, col) of the board and a queen in each earlier
\* row, isSafeBitmask on the masks accumulated from those queens returns
\* what isSafeTraditional returns on the board.
C25_SafetyChecksAgree ==
    (runner = "isSafe" /\ pc = "bitmask") => trace[2] = trace[1]

Reported == trace[Len(trace)].payload.allSolutions

\* C26: every reported solution is valid.  The board of each solution-found
\* step and every entry of allSolutions of the complete step has n entries
\* in 0..n-1, pairwise distinct, no two on one diagonal.
C26_SolutionsValid ==
    QueensDone =>
        /\ \A j \in SolutionFoundAt : IsPlacement(trace[j].payload.board, runInput.n)
        /\ \A i \in 1..Len(Reported) : IsPlacement(Reported[i], runInput.n)

C26_Witness ==
    /\ QueensDone /\ runInput.n = 5
    /\ Cardinality(SolutionFoundAt) = 10 /\ Len(Reported) = 10
    /\ ~BitmaskRan

RowKinds == {"try-row", "try-col", "check-safe", "place-queen", "backtrack"}

IsTryRow(j, r) == trace[j].kind = "try-row" /\ trace[j].payload.row = r

IsAt(j, kind, r, c) ==
    /\ trace[j].kind = kind
    /\ trace[j].payload.row = r
    /\ trace[j].payload.col = c

\* Step i belongs to a row below r on the board, or to no row.
Deeper(i, r) == trace[i].kind \in RowKinds => trace[i].payload.row > r

\* What follows step j when the loop of row r is done with column c: the
\* next column, or the return of the call to the loop of the row above.
LoopGoesOn(j, r, c) ==
    IF c < runInput.n - 1 THEN IsAt(j + 1, "try-col", r, c + 1)
    ELSE IF r = 0 THEN trace[j + 1].kind \in {"no-solution", "complete"}
    ELSE trace[j + 1].kind = "backtrack" /\ trace[j + 1].payload.row = r - 1

\* The backtrack step of the queen placed by step j: the first later step
\* that is not of a deeper row.
HasBacktrack(j, r, c) ==
    \E k \in j + 1..Len(trace) :
        /\ IsAt(k, "backtrack", r, c)
        /\ \A i \in j + 1..k - 1 : Deeper(i, r)

SearchStopped ==
    \/ StepLimitAt # {}
    \/ /\ SolutionFoundAt # {}
       /\ AtLeast(Cardinality(SolutionFoundAt), queensMaxSolutions(runInput))

StepOrdered(j) ==
    LET kind == trace[j].kind
        p == trace[j].payload
    IN  CASE kind = "try-row" -> IsAt(j + 1, "try-col", p.row, 0)
          [] kind = "try-col" -> IsAt(j + 1, "check-safe", p.row, p.col)
          [] kind = "check-safe" ->
                IF p.safe THEN IsAt(j + 1, "place-queen", p.row, p.col)
                ELSE LoopGoesOn(j, p.row, p.col)
          [] kind = "place-queen" ->
                /\ IsAt(j - 1, "check-safe", p.row, p.col) /\ trace[j - 1].payload.safe
                /\ IF p.row + 1 < runInput.n
                   THEN IsTryRow(j + 1, p.row + 1) \/ trace[j + 1].kind = "step-limit"
                   ELSE trace[j + 1].kind = "solution-found"
                /\ \/ HasBacktrack(j, p.row, p.col)
                   \/ SearchStopped /\ \A i \in j + 1..Len(trace) : Deeper(i, p.row)
          [] kind = "backtrack" ->
                /\ LoopGoesOn(j, p.row, p.col)
                /\ \E i \in 1..j - 1 :
                      /\ IsAt(i, "place-queen", p.row, p.col)
                      /\ \A k \in i + 1..j - 1 : Deeper(k, p.row)
          [] OTHER -> TRUE

\* C27: step ordering in full mode.  The call for row r records try-row(r)
\* first and visits the columns 0..n-1 in ascending order; each column
\* gives try-col(r, c) directly followed by check-safe(r, c, safe);
\* place-queen(r, c) comes directly after a check-safe(r, c) with safe
\* true, and only there; backtrack(r, c) follows the steps of the descent
\* from (r, c) exactly when that descent came back without stopping the
\* search.
C27_FullModeOrdering ==
    (QueensDone /\ trace[1].payload.mode = "full") =>
        /\ IsTryRow(2, 0)
        /\ \A j \in 2..Len(trace) - 1 : StepOrdered(j)

C27_Witness ==
    /\ QueensDone /\ trace[1].payload.mode = "full" /\ runInput.n = 5
    /\ Cardinality(SolutionFoundAt) = 2
    /\ HasKind(trace, "backtrack")
    /\ \E j \in 2..Len(trace) :
          trace[j].kind = "place-queen" /\ ~HasBacktrack(j, trace[j].payload.row, trace[j].payload.col)

DetailedAt == {j \in 1..Len(trace) : trace[j].kind \in {"compute", "store"}}

DetailedIndices == {trace[j].payload.i : j \in DetailedAt}

\* C28: the detailed-step cap.  For every valid input, full mode asked for
\* or not and whatever the detailLevel, a trace has at most 2000 compute
\* and store steps, and they are of at most 2000 indices.
C28_DetailedStepCap ==
    FibDone =>
        /\ Cardinality(DetailedAt) <= MAX_DETAILED_STEPS
        /\ Cardinality(DetailedIndices) <= MAX_DETAILED_STEPS

\* The complete step says "no solution exists" when solutionFound is false:
\* its description is chosen by the test that gives solutionFound.
SaysNoSolutionExists == ~trace[Len(trace)].payload.solutionFound

\* C29: an aborted search is not reported as unsolvable.  A trace with a
\* step-limit step has no no-solution step, and its complete step does not
\* say that no solution exists.
C29_AbortedNotUnsolvable ==
    (QueensDone /\ StepLimitAt # {}) =>
        /\ NoSolutionAt = {}
        /\ ~SaysNoSolutionExists

RowStepAt == {j \in 1..Len(trace) : trace[j].kind \in RowKinds}

\* The board of a step of row r: a queen in each of the rows 0..r-1, no two
\* attacking each other, row r as given and no queen in the rows after r.
SnapshotOf(board, r, atRow) ==
    /\ Len(board) = runInput.n
    /\ \A i \in 1..r : board[i] \in 0..runInput.n - 1
    /\ \A i, k \in 1..r :
          i < k => board[i] # board[k] /\ Abs(board[i] - board[k]) # k - i
    /\ board[r + 1] = atRow
    /\ \A i \in r + 2..runInput.n : board[i] = -1

\* C30: board snapshots are consistent.  In every try-row, try-col,
\* check-safe, place-queen and backtrack step of row r the payload board
\* holds non-attacking queens in the rows 0..r-1 and -1 in every row after
\* r; board[r] is col in a place-queen step and -1 in the others; the board
\* is the one of the moment the step was recorded, whatever the solver
\* wrote to its working board afterwards.
C30_BoardSnapshots ==
    QueensDone =>
        \A j \in RowStepAt :
            SnapshotOf(trace[j].payload.board, trace[j].payload.row,
                       IF trace[j].kind = "place-queen" THEN trace[j].payload.col ELSE -1)

C30_Witness ==
    /\ QueensDone /\ runInput.n = 5 /\ trace[1].payload.mode = "full"
    /\ \E j, k \in RowStepAt :
          /\ j < k
          /\ trace[j].kind = "place-queen" /\ trace[j].payload.row = 4
          /\ trace[k].kind = "backtrack" /\ trace[k].payload.row = 0

====
